---- MODULE Spec2Model ----
(***************************************************************************)
(* nrsc5 front end: the RTL-SDR path of main() (src/src/main.c) with the   *)
(* automatic gain search of rtlsdr_snr_callback, and the SNR estimator of  *)
(* the input pipeline (declared in src/src/input.h) that drives it.        *)
(*                                                                         *)
(* Floats are modelled as exact integers plus NaN.  The only arithmetic on *)
(* them is best_snr * 0.5, which C evaluates in double and which is exact, *)
(* so  snr < best_snr * 0.5  is  2*snr < best_snr.                         *)
(***************************************************************************)
EXTENDS Integers, Sequences, FiniteSets, TLC

VARIABLES
    \* ---- main.c: main() and the file-scope statics
    pc,          \* position of main() in the RTL-SDR branch (lines 392-444)
    gain,        \* main.c:124  -g option, INT_MIN when not given
    gain_list,   \* main.c:45   populated prefix of gain_list[128]
    gain_index,  \* main.c:46
    gain_count,  \* main.c:46
    best_gain,   \* main.c:51   static local of rtlsdr_snr_callback
    best_snr,    \* main.c:52   static local of rtlsdr_snr_callback
    \* ---- input_t (input.h:17-39): the SNR estimator inside input_cb
    snr_cb,      \* input.h:32  the registered callback, "NULL" when none
    snr_fill,    \* input.h:28  samples in the current 64-sample window
    snr_cnt,     \* input.h:31  completed windows of the current SNR sample
    ipc,         \* position inside input_cb: idle / accept / snr / after_snr
    blk,         \* decimated samples of the current block still to accept
    cb_snr,      \* the SNR value handed to the callback
    cb_result,   \* the value the callback last returned
    \* ---- the tuner (external collaborator)
    dev_gains,   \* the gain table the tuner reports
    hw_gain,     \* <<g>>: the gain the tuner is set to, <<>> before any
    hw_ops,      \* tuner calls issued, in order (consecutive reads merged)
    hw_failed,   \* some tuner configuration call has reported an error
    plan,        \* SNR values the environment delivers first (<<>>: any)
    \* ---- history
    visited,     \* [idx, snr] of every sample handled while Searching
    n_continue,  \* "continue" results returned so far
    late_cb,     \* the callback has been invoked after conclusion
    since_fire,  \* samples accepted by the estimator since its last SNR sample
    \* ---- input_t.skip (input.h:25) and the samples it lets through
    skip,        \* input.h:25  leading samples still to discard
    sk_armed,    \* the N of the last input_set_skip (0 after input_init)
    sk_in,       \* samples ingested since then
    sk_disc,     \* ... of which discarded
    sk_fwd,      \* ... of which forwarded to the decimator
    sk_zero,     \* times skip went from non-zero to zero since then
    sk_zero_all, \* times skip went from non-zero to zero at all (counted to 2)
    \* ---- input_t.decim (input.h:22): the streaming decimation filter
    dec_in,      \* the whole input sample sequence of the run
    dec_pos,     \* samples of it handed to the decimator so far
    dec_hist,    \* the filter_length - 1 input samples carried between calls
    dec_phase,   \* input samples since the last output sample
    dec_out,     \* concatenated output of the calls so far
    dec_calls,   \* calls made so far
    dec_split,   \* some call ended in the middle of a decimation group
    \* ---- file input (main.c:326-336)
    f_len,       \* bytes in the input file
    f_pos,       \* read position of infp
    f_eof,       \* the end-of-file indicator of infp
    f_cnt,       \* main.c:331  cnt, the items the last fread returned
    f_blk,       \* length of the block last passed to input_cb
    f_passed,    \* bytes passed to input_cb so far
    \* ---- logging (main.c:86-95, 184-189)
    log_fn,      \* the lock function installed by log_set_lock
    log_udata,   \* the udata installed by log_set_udata
    log_mutex,   \* main.c:185  "uninit", "free" or the thread holding it
    tpc,         \* position of each thread
    log_sink,    \* what has been written to the log sink, in order
    n_acq,       \* pthread_mutex_lock calls that returned
    n_rel        \* pthread_mutex_unlock calls

vars == <<pc, gain, gain_list, gain_index, gain_count, best_gain, best_snr,
          snr_cb, snr_fill, snr_cnt, ipc, blk, cb_snr, cb_result,
          dev_gains, hw_gain, hw_ops, hw_failed, plan,
          visited, n_continue, late_cb, since_fire,
          skip, sk_armed, sk_in, sk_disc, sk_fwd, sk_zero, sk_zero_all,
          dec_in, dec_pos, dec_hist, dec_phase, dec_out, dec_calls, dec_split,
          f_len, f_pos, f_eof, f_cnt, f_blk, f_passed,
          log_fn, log_udata, log_mutex, tpc, log_sink, n_acq, n_rel>>

mainVars  == <<pc, gain, gain_list, gain_index, gain_count, best_gain, best_snr>>
gainVars  == <<gain_list, gain_index, gain_count, best_gain, best_snr>>
hwVars    == <<hw_gain, hw_ops, hw_failed>>
histVars  == <<visited, n_continue, late_cb>>
estVars   == <<snr_fill, snr_cnt, since_fire>>
inVars    == <<snr_fill, snr_cnt, ipc, blk, cb_snr, cb_result, since_fire>>
skipVars  == <<skip, sk_armed, sk_in, sk_disc, sk_fwd, sk_zero, sk_zero_all>>
decVars   == <<dec_in, dec_pos, dec_hist, dec_phase, dec_out, dec_calls, dec_split>>
fileVars  == <<f_len, f_pos, f_eof, f_cnt, f_blk, f_passed>>
logVars   == <<log_fn, log_udata, log_mutex, tpc, log_sink, n_acq, n_rel>>
auxVars   == <<skipVars, decVars, fileVars, logVars>>
coreVars  == <<mainVars, snr_cb, inVars, dev_gains, hwVars, plan, histVars>>

----------------------------------------------------------------------------
\* Bounds of the model
MaxGains == 3        \* longest gain table the tuner reports
MaxSnr == 3          \* largest SNR value the environment delivers
SNR_FFT_COUNT == 2   \* windows per SNR sample (defines.h, scaled down)
MaxChunk == 3        \* longest of the short blocks fed to input_cb
DecimFactor == 2     \* input samples per decimated sample (scaled filter)
FilterLen == 3       \* taps of the decimation filter (scaled down)
MaxDecLen == 5       \* longest input sequence given to the decimator

\* Program constants
INT_MIN == 0 - 2147483647 - 1   \* limits.h, the initial value of gain (main.c:124)
FFT_LEN == 64
GAIN_LIST_LEN == 128            \* main.c:45  static int gain_list[128]
Stride == 4

----------------------------------------------------------------------------
\* float values: exact integers, or NaN
F(v) == [nan |-> FALSE, v |-> v]
NaN == [nan |-> TRUE, v |-> 0]

\* snr >= best_snr  (main.c:60); false when either side is NaN
FGe(a, b) == ~a.nan /\ ~b.nan /\ a.v >= b.v

\* snr < best_snr * 0.5  (main.c:68); false when either side is NaN
FLtHalf(a, b) == ~a.nan /\ ~b.nan /\ 2 * a.v < b.v

SnrValues == {NaN} \cup {F(v) : v \in (0 - 1)..MaxSnr}

\* the gain tables a tuner may report: none, or n ascending entries in
\* tenths of a dB, of one of two tuner types
TunerTable(kind, n) == [i \in 1..n |-> IF kind = 1 THEN 10 * (i - 1) ELSE 25 * i - 35]
TunerTables == {TunerTable(k, n) : k \in 1..2, n \in 0..MaxGains}

ExplicitGains == {0, 15}

\* gain_list[i], C index i; the entries of the static array behind the
\* populated prefix are zero
GainAt(i) == IF i + 1 \in DOMAIN gain_list THEN gain_list[i + 1] ELSE 0

\* the tuner calls recorded in hw_ops
OpSetGain(g) == [op |-> "set_tuner_gain", arg |-> g]
OpReset == [op |-> "reset_buffer", arg |-> 0]
OpRead == [op |-> "read_sync", arg |-> 0]

LogRead(ops) == IF ops # <<>> /\ ops[Len(ops)] = OpRead THEN ops ELSE Append(ops, OpRead)

Threads == {"main", "driver"}

\* the decimator's history before any sample: filter_length - 1 zeros
ZeroHist == [i \in 1..(FilterLen - 1) |-> 0]

----------------------------------------------------------------------------
\* State at the entry of the RTL-SDR branch (after input_init, main.c:324)
InitCore ==
    /\ gain_list = <<>> /\ gain_index = 0 /\ gain_count = 0
    /\ best_gain = 0 /\ best_snr = F(0)
    /\ snr_fill = 0 /\ snr_cnt = 0
    /\ ipc = "idle" /\ blk = 0 /\ cb_snr = F(0) /\ cb_result = 0
    /\ hw_gain = <<>> /\ hw_ops = <<>> /\ hw_failed = FALSE
    /\ visited = <<>> /\ n_continue = 0 /\ late_cb = FALSE /\ since_fire = 0

\* input_init (main.c:324): the skip counter and the decimator start clear
SkipIdle ==
    /\ skip = 0 /\ sk_armed = 0 /\ sk_in = 0 /\ sk_disc = 0 /\ sk_fwd = 0
    /\ sk_zero = 0 /\ sk_zero_all = 0

DecIdle ==
    /\ dec_in = <<>> /\ dec_pos = 0 /\ dec_hist = ZeroHist /\ dec_phase = 0
    /\ dec_out = <<>> /\ dec_calls = 0 /\ dec_split = FALSE

\* no input file (main.c:326, infp is NULL)
FileIdle ==
    /\ f_len = 0 /\ f_pos = 0 /\ f_eof = FALSE /\ f_cnt = 0 /\ f_blk = 0
    /\ f_passed = 0

\* the log lock as main.c:184-189 leaves it, nobody logging
LogIdle ==
    /\ log_fn = "log_lock" /\ log_udata = "log_mutex" /\ log_mutex = "free"
    /\ tpc = [t \in Threads |-> "idle"]
    /\ log_sink = <<>> /\ n_acq = 0 /\ n_rel = 0

InitCommon == InitCore /\ SkipIdle /\ DecIdle /\ FileIdle /\ LogIdle

Init ==
    /\ InitCommon
    /\ pc = "open" /\ snr_cb = "NULL"
    /\ gain \in {INT_MIN} \cup ExplicitGains
    /\ dev_gains \in TunerTables
    /\ plan = <<>>

\* FATAL_EXIT: log and exit(1)
Fatal ==
    /\ pc' = "exit_fatal"
    /\ hw_failed' = TRUE

\* A tuner configuration call whose non-zero result is fatal (main.c:395-404)
ConfigCall(here, next) ==
    /\ pc = here
    /\ \E err \in BOOLEAN :
         IF err THEN Fatal ELSE pc' = next /\ UNCHANGED hw_failed
    /\ UNCHANGED <<gain, gainVars, snr_cb, inVars, dev_gains, hw_gain, hw_ops, plan, auxVars, histVars>>

rtlsdr_open == ConfigCall("open", "set_sample_rate")
rtlsdr_set_sample_rate == ConfigCall("set_sample_rate", "set_tuner_gain_mode")
rtlsdr_set_tuner_gain_mode == ConfigCall("set_tuner_gain_mode", "set_freq_correction")
rtlsdr_set_center_freq == ConfigCall("set_center_freq", "gain_setup")

\* main.c:401-402: result -2 (correction unchanged) is not an error
rtlsdr_set_freq_correction ==
    /\ pc = "set_freq_correction"
    /\ \E err \in {0, 0 - 2, 0 - 1} :
         IF err # 0 /\ err # 0 - 2 THEN Fatal ELSE pc' = "set_center_freq" /\ UNCHANGED hw_failed
    /\ UNCHANGED <<gain, gainVars, snr_cb, inVars, dev_gains, hw_gain, hw_ops, plan, auxVars, histVars>>

\* err = rtlsdr_set_tuner_gain(dev, g); if (err) FATAL_EXIT  (main.c:412-413, 418-419)
SetGainOrDie(g) ==
    /\ hw_ops' = Append(hw_ops, OpSetGain(g))
    /\ \E err \in BOOLEAN :
         IF err THEN Fatal /\ UNCHANGED hw_gain
                ELSE pc' = "reset_buffer" /\ hw_gain' = <<g>> /\ UNCHANGED hw_failed

\* main.c:406  if (gain == INT_MIN)
AutoGain_always == TRUE
AutoGain == gain = INT_MIN

\* main.c:406-420
GainSetup ==
    /\ pc = "gain_setup"
    /\ IF AutoGain
       THEN \E ret \in {Len(dev_gains), 0 - 1} :
              /\ gain_count' = ret
              /\ gain_list' = IF ret > 0 THEN dev_gains ELSE gain_list
              /\ IF ret > 0
                 THEN snr_cb' = "rtlsdr_snr_callback" /\ SetGainOrDie(dev_gains[1])
                 ELSE /\ pc' = "reset_buffer"
                      /\ UNCHANGED <<snr_cb, hwVars>>
       ELSE /\ SetGainOrDie(gain)
            /\ UNCHANGED <<gain_count, gain_list, snr_cb>>
    /\ UNCHANGED <<gain, gain_index, best_gain, best_snr, inVars, dev_gains, plan, auxVars, histVars>>

\* main.c:422-423
ResetBuffer ==
    /\ pc = "reset_buffer"
    /\ hw_ops' = Append(hw_ops, OpReset)
    /\ \E err \in BOOLEAN :
         IF err THEN Fatal ELSE pc' = "loop" /\ UNCHANGED hw_failed
    /\ UNCHANGED <<gain, gainVars, snr_cb, inVars, dev_gains, hw_gain, plan, auxVars, histVars>>

\* main.c:426  while (gain_count)
LoopContinues_never(cnt) == FALSE
LoopContinues(cnt) == cnt # 0

LoopTest ==
    /\ pc = "loop"
    /\ pc' = IF LoopContinues(gain_count) THEN "read_sync" ELSE "read_async"
    /\ UNCHANGED <<gain, gainVars, snr_cb, inVars, dev_gains, hwVars, plan, auxVars, histVars>>

\* bytes a synchronous read is asked for (main.c:429)
SyncLen == 128 * SNR_FFT_COUNT

\* main.c:431-434: the read returns the block, or half of it, or fails
ReadSync ==
    /\ pc = "read_sync"
    /\ hw_ops' = LogRead(hw_ops)
    /\ \E err \in BOOLEAN :
         IF err
         THEN Fatal /\ UNCHANGED <<blk, ipc>>
         ELSE \E len \in {SyncLen, SyncLen \div 2} :
                /\ blk' = len \div Stride
                /\ ipc' = "accept"
                /\ pc' = "input_cb"
                /\ UNCHANGED hw_failed
    /\ UNCHANGED <<gain, gainVars, snr_cb, estVars, cb_snr, cb_result, dev_gains, hw_gain, plan, auxVars, histVars>>

\* bytes of one asynchronous buffer (RADIO_BUFFER, main.c:43, scaled down to
\* one and a half SNR samples)
AsyncLen == 3 * SyncLen

\* main.c:438: the driver delivers the next buffer to input_cb
AsyncBlock ==
    /\ pc = "read_async" /\ ipc = "idle"
    /\ blk' = AsyncLen \div Stride
    /\ ipc' = "accept"
    /\ UNCHANGED <<mainVars, snr_cb, estVars, cb_snr, cb_result, dev_gains, hwVars, plan, auxVars, histVars>>

\* main.c:438-439: rtlsdr_read_async returns
AsyncEnd ==
    /\ pc = "read_async" /\ ipc = "idle"
    /\ \E err \in BOOLEAN :
         IF err THEN Fatal ELSE pc' = "close" /\ UNCHANGED hw_failed
    /\ UNCHANGED <<gain, gainVars, snr_cb, inVars, dev_gains, hw_gain, hw_ops, plan, auxVars, histVars>>

\* main.c:440-444
rtlsdr_close ==
    /\ pc = "close"
    /\ \E err \in BOOLEAN :
         IF err THEN Fatal ELSE pc' = "done" /\ UNCHANGED hw_failed
    /\ UNCHANGED <<gain, gainVars, snr_cb, inVars, dev_gains, hw_gain, hw_ops, plan, auxVars, histVars>>

----------------------------------------------------------------------------
\* The SNR estimator inside input_cb (spec.md 4.3; input.c is not in src/)

\* where input_cb returns to
ReturnPc == IF pc = "input_cb" THEN "loop" ELSE pc

\* the SNR values the environment may deliver next
NextSnr == IF Len(visited) < Len(plan) THEN {plan[Len(visited) + 1]} ELSE SnrValues

\* accept n samples, stopping when an SNR sample completes: the samples
\* fill the current window, a partial window is kept for the next block; a
\* full window bumps the frame counter, SNR_FFT_COUNT frames make a sample
RECURSIVE SnrAccept_drop(_, _, _)
SnrAccept_drop(fill, cnt, n) ==
    IF fill + n < FFT_LEN
    THEN [fill |-> 0, cnt |-> cnt, left |-> 0, fired |-> FALSE]
    ELSE LET rest == n - (FFT_LEN - fill) IN
         IF cnt + 1 = SNR_FFT_COUNT
         THEN [fill |-> 0, cnt |-> 0, left |-> rest, fired |-> TRUE]
         ELSE SnrAccept_drop(0, cnt + 1, rest)

RECURSIVE SnrAccept(_, _, _)
SnrAccept(fill, cnt, n) ==
    IF fill + n < FFT_LEN
    THEN [fill |-> fill + n, cnt |-> cnt, left |-> 0, fired |-> FALSE]
    ELSE LET rest == n - (FFT_LEN - fill) IN
         IF cnt + 1 = SNR_FFT_COUNT
         THEN [fill |-> 0, cnt |-> 0, left |-> rest, fired |-> TRUE]
         ELSE SnrAccept(0, cnt + 1, rest)

\* input_cb: hand the block's samples to the estimator
InputAccept ==
    /\ ipc = "accept"
    /\ IF snr_cb = "NULL"
       THEN /\ blk' = 0 /\ ipc' = "idle" /\ pc' = ReturnPc
            /\ UNCHANGED <<estVars, cb_snr>>
       ELSE LET r == SnrAccept(snr_fill, snr_cnt, blk) IN
            /\ snr_fill' = r.fill /\ snr_cnt' = r.cnt /\ blk' = r.left
            /\ since_fire' = since_fire + (blk - r.left)
            /\ IF r.fired
               THEN /\ ipc' = "snr" /\ pc' = pc
                    /\ cb_snr' \in NextSnr
               ELSE /\ ipc' = "idle" /\ pc' = ReturnPc
                    /\ UNCHANGED cb_snr
    /\ UNCHANGED <<gain, gainVars, snr_cb, cb_result, dev_gains, hwVars, plan, auxVars, histVars>>

\* after the callback: "continue" (true) resets the stream, dropping the
\* samples in flight; "stop" (false) resumes the normal flow
InputAfterSnr ==
    /\ ipc = "after_snr"
    /\ since_fire' = 0
    /\ IF cb_result = 1 \/ blk = 0
       THEN /\ blk' = 0 /\ snr_fill' = 0 /\ snr_cnt' = 0
            /\ ipc' = "idle" /\ pc' = ReturnPc
       ELSE /\ ipc' = "accept"
            /\ UNCHANGED <<blk, snr_fill, snr_cnt, pc>>
    /\ cb_snr' = F(0)
    /\ UNCHANGED <<gain, gainVars, snr_cb, cb_result, dev_gains, hwVars, plan, auxVars, histVars>>

----------------------------------------------------------------------------
\* rtlsdr_snr_callback (main.c:49-84)

\* main.c:56  if (gain_count == 0) return result;
SearchOver_never == FALSE
SearchOver == gain_count = 0

\* main.c:60
UpdatesBest_strict(snr, best) == ~snr.nan /\ ~best.nan /\ snr.v > best.v
UpdatesBest(snr, best) == FGe(snr, best)

\* main.c:68, best being best_snr after the update of lines 60-64
SearchStops_leq(idx, cnt, snr, best) ==
    idx + 1 >= cnt \/ (~snr.nan /\ ~best.nan /\ 2 * snr.v <= best.v)
SearchStops_nohalf(idx, cnt, snr, best) ==
    idx + 1 >= cnt \/ (~snr.nan /\ ~best.nan /\ snr.v < best.v)
SearchStops_late(idx, cnt, snr, best) == idx >= cnt \/ FLtHalf(snr, best)
SearchStops(idx, cnt, snr, best) == idx + 1 >= cnt \/ FLtHalf(snr, best)

\* main.c:76  gain_index++
NextIndex_stay(idx) == idx
NextIndex(idx) == idx + 1

\* main.c:81-82: both calls are made, their results are not looked at
CallbackTunerCalls_swapped(g) ==
    /\ hw_ops' = hw_ops \o <<OpReset, OpSetGain(g)>>
    /\ \E err1 \in BOOLEAN, err2 \in BOOLEAN :
         /\ hw_gain' = IF err1 THEN hw_gain ELSE <<g>>
         /\ hw_failed' = (hw_failed \/ err1 \/ err2)
CallbackTunerCalls(g) ==
    /\ hw_ops' = hw_ops \o <<OpSetGain(g), OpReset>>
    /\ \E err1 \in BOOLEAN, err2 \in BOOLEAN :
         /\ hw_gain' = IF err1 THEN hw_gain ELSE <<g>>
         /\ hw_failed' = (hw_failed \/ err1 \/ err2)

rtlsdr_snr_callback ==
    /\ ipc = "snr" /\ snr_cb = "rtlsdr_snr_callback"
    /\ ipc' = "after_snr"
    /\ IF SearchOver
       THEN /\ cb_result' = 0
            /\ late_cb' = TRUE
            /\ UNCHANGED <<gainVars, hwVars, visited, n_continue>>
       ELSE LET upd  == UpdatesBest(cb_snr, best_snr)
                bg   == IF upd THEN gain_index ELSE best_gain
                bs   == IF upd THEN cb_snr ELSE best_snr
                stop == SearchStops(gain_index, gain_count, cb_snr, bs)
                gi   == IF stop THEN bg ELSE NextIndex(gain_index)
            IN  /\ best_gain' = bg /\ best_snr' = bs
                /\ gain_index' = gi
                /\ gain_count' = IF stop THEN 0 ELSE gain_count
                /\ cb_result' = IF stop THEN 0 ELSE 1
                /\ CallbackTunerCalls(GainAt(gi))
                /\ visited' = Append(visited, [idx |-> gain_index, snr |-> cb_snr])
                /\ n_continue' = IF stop THEN n_continue ELSE n_continue + 1
                /\ UNCHANGED <<gain_list, late_cb>>
    /\ UNCHANGED <<pc, gain, snr_cb, snr_fill, snr_cnt, blk, cb_snr, since_fire, dev_gains, plan, auxVars>>

----------------------------------------------------------------------------
Next ==
    \/ rtlsdr_open
    \/ rtlsdr_set_sample_rate
    \/ rtlsdr_set_tuner_gain_mode
    \/ rtlsdr_set_freq_correction
    \/ rtlsdr_set_center_freq
    \/ GainSetup
    \/ ResetBuffer
    \/ LoopTest
    \/ ReadSync
    \/ InputAccept
    \/ rtlsdr_snr_callback
    \/ InputAfterSnr
    \/ AsyncBlock
    \/ AsyncEnd
    \/ rtlsdr_close

Spec == Init /\ [][Next]_vars

\* main() is a sequential program that keeps running while it can
FairSpec == Spec /\ WF_vars(Next)

----------------------------------------------------------------------------
\* The gain search on the trace of spec.md section 8: a tuner with five gain
\* settings whose successive SNR samples are 5, 8, 10, 9, 4
TraceSnr == <<F(5), F(8), F(10), F(9), F(4)>>

InitTrace ==
    /\ InitCommon
    /\ pc = "open" /\ snr_cb = "NULL"
    /\ gain \in {INT_MIN} \cup ExplicitGains
    /\ dev_gains \in {TunerTable(k, Len(TraceSnr)) : k \in 1..2}
    /\ plan = TraceSnr

SpecTrace == InitTrace /\ [][Next]_vars

----------------------------------------------------------------------------
\* The estimator alone: a stream of blocks of any length into input_cb, with
\* a registered callback that may answer either way
ChunkLens == (1..MaxChunk) \cup
             {FFT_LEN - 1, SNR_FFT_COUNT * FFT_LEN, 2 * SNR_FFT_COUNT * FFT_LEN + 1}

InitInput ==
    /\ InitCommon
    /\ pc = "stream" /\ snr_cb = "any"
    /\ gain = INT_MIN /\ dev_gains = <<>> /\ plan = <<>>

\* the next block arrives
Feed ==
    /\ pc = "stream" /\ ipc = "idle"
    /\ \E n \in ChunkLens : blk' = n
    /\ ipc' = "accept"
    /\ UNCHANGED <<mainVars, snr_cb, estVars, cb_snr, cb_result, dev_gains, hwVars, plan, auxVars, histVars>>

\* input_snr_cb_t (input.h:15): a callback answers 0 or 1
AnyCallback ==
    /\ ipc = "snr" /\ snr_cb = "any"
    /\ ipc' = "after_snr"
    /\ cb_result' \in {0, 1}
    /\ UNCHANGED <<mainVars, snr_cb, snr_fill, snr_cnt, blk, cb_snr, since_fire, dev_gains, hwVars, plan, auxVars, histVars>>

NextInput ==
    \/ Feed
    \/ InputAccept
    \/ AnyCallback
    \/ InputAfterSnr

SpecInput == InitInput /\ [][NextInput]_vars

----------------------------------------------------------------------------
\* The skip counter of the ingest stage (spec.md 4.1, 4.4; input.c is not in
\* src/): input_set_skip arms it, input_cb discards leading samples while it
\* is non-zero and forwards the rest
MaxSkip == 5
MaxKeep == 6

Min(a, b) == IF a < b THEN a ELSE b

\* samples of a block of n that are discarded with the counter at k
SkipTake_block(k, n) == IF k > 0 THEN n ELSE 0
SkipTake(k, n) == Min(k, n)

\* the counter after d samples were discarded
SkipLeft_plus(k, d) == k + d
SkipLeft(k, d) == k - d

\* skip going from non-zero to zero
HitsZero(k, k2) == IF k > 0 /\ k2 = 0 THEN 1 ELSE 0

InitSkip ==
    /\ InitCommon
    /\ pc = "ingest" /\ snr_cb = "NULL"
    /\ gain = INT_MIN /\ dev_gains = <<>> /\ plan = <<>>

\* input_set_skip (input.h:44)
input_set_skip ==
    /\ pc = "ingest"
    /\ \E n \in 0..MaxSkip :
         /\ skip' = n /\ sk_armed' = n
         /\ sk_zero_all' = Min(2, sk_zero_all + HitsZero(skip, n))
    /\ sk_in' = 0 /\ sk_disc' = 0 /\ sk_fwd' = 0 /\ sk_zero' = 0
    /\ UNCHANGED <<coreVars, decVars, fileVars, logVars>>

\* input_init (input.h:41): the counter returns to its initial value
input_init ==
    /\ pc = "ingest"
    /\ skip' = 0 /\ sk_armed' = 0
    /\ sk_zero_all' = Min(2, sk_zero_all + HitsZero(skip, 0))
    /\ sk_in' = 0 /\ sk_disc' = 0 /\ sk_fwd' = 0 /\ sk_zero' = 0
    /\ UNCHANGED <<coreVars, decVars, fileVars, logVars>>

\* input_cb (input.h:42), ingest stage: a block of n samples arrives
Ingest ==
    /\ pc = "ingest"
    /\ \E n \in 1..MaxChunk :
         /\ sk_in + n <= sk_armed + MaxKeep
         /\ LET d == SkipTake(skip, n) IN
            /\ skip' = SkipLeft(skip, d)
            /\ sk_disc' = sk_disc + d
            /\ sk_fwd' = sk_fwd + (n - d)
            /\ sk_in' = sk_in + n
            /\ sk_zero' = sk_zero + HitsZero(skip, SkipLeft(skip, d))
            /\ sk_zero_all' = Min(2, sk_zero_all + HitsZero(skip, SkipLeft(skip, d)))
    /\ UNCHANGED <<sk_armed, coreVars, decVars, fileVars, logVars>>

NextSkip ==
    \/ input_set_skip
    \/ input_init
    \/ Ingest

SpecSkip == InitSkip /\ [][NextSkip]_vars

----------------------------------------------------------------------------
\* The streaming decimator (spec.md 4.2; firdecim_q15 is not in src/): one
\* output per DecimFactor input samples, the weighted sum over the most recent
\* FilterLen samples, history and phase carried from call to call
DecSamples == {0 - 1, 0, 1}
Taps == [i \in 1..FilterLen |-> i]

SeqsUpTo(S, n) == UNION {[1..k -> S] : k \in 0..n}

RECURSIVE DotFrom(_, _)
DotFrom(w, i) == IF i > FilterLen THEN 0 ELSE Taps[i] * w[i] + DotFrom(w, i + 1)

\* one call on samples xs, from history hist and phase phase
RECURSIVE DecimRun(_, _, _, _)
DecimRun(hist, phase, xs, out) ==
    IF xs = <<>> THEN [hist |-> hist, phase |-> phase, out |-> out]
    ELSE LET w == Append(hist, Head(xs))
             p == (phase + 1) % DecimFactor
         IN DecimRun(Tail(w), p, Tail(xs),
                     IF p = 0 THEN Append(out, DotFrom(w, 1)) ELSE out)

\* the history a call leaves for the next call
CarryHist_clear(h) == ZeroHist
CarryHist(h) == h

InitDecim ==
    /\ InitCore /\ SkipIdle /\ FileIdle /\ LogIdle
    /\ pc = "decim" /\ snr_cb = "NULL"
    /\ gain = INT_MIN /\ dev_gains = <<>> /\ plan = <<>>
    /\ dec_in \in SeqsUpTo(DecSamples, MaxDecLen)
    /\ dec_pos = 0 /\ dec_hist = ZeroHist /\ dec_phase = 0
    /\ dec_out = <<>> /\ dec_calls = 0 /\ dec_split = FALSE

\* Decimator.process on the next n samples of the input
DecimProcess ==
    /\ pc = "decim"
    /\ \E n \in 1..MaxChunk :
         /\ dec_pos + n <= Len(dec_in)
         /\ LET r == DecimRun(dec_hist, dec_phase,
                              SubSeq(dec_in, dec_pos + 1, dec_pos + n), <<>>) IN
            /\ dec_hist' = CarryHist(r.hist)
            /\ dec_phase' = r.phase
            /\ dec_out' = dec_out \o r.out
            /\ dec_split' = (dec_split \/ r.phase # 0)
         /\ dec_pos' = dec_pos + n
    /\ dec_calls' = dec_calls + 1
    /\ UNCHANGED <<dec_in, coreVars, skipVars, fileVars, logVars>>

\* the same sequence given to the decimator in one call
DecimWhole ==
    /\ pc = "decim"
    /\ dec_pos = 0 /\ dec_in # <<>>
    /\ LET r == DecimRun(dec_hist, dec_phase, dec_in, <<>>) IN
         /\ dec_hist' = CarryHist(r.hist)
         /\ dec_phase' = r.phase
         /\ dec_out' = dec_out \o r.out
         /\ dec_split' = (dec_split \/ r.phase # 0)
    /\ dec_pos' = Len(dec_in)
    /\ dec_calls' = dec_calls + 1
    /\ UNCHANGED <<dec_in, coreVars, skipVars, fileVars, logVars>>

NextDecim ==
    \/ DecimProcess
    \/ DecimWhole

SpecDecim == InitDecim /\ [][NextDecim]_vars

----------------------------------------------------------------------------
\* File input (main.c:326-336)
RADIO_BUFFER == 8    \* main.c:43, scaled down
MaxFile == 17        \* longest input file, in bytes

\* main.c:331  sizeof(tmp) / 4, the items one fread asks for
ReadItems == RADIO_BUFFER \div 4

\* main.c:333  if (cnt > 0)
PassBlock_always(cnt) == TRUE
PassBlock(cnt) == cnt > 0

\* main.c:334  cnt * 4, the length given to input_cb
BlockBytes(cnt) == cnt * 4

InitFile ==
    /\ InitCore /\ SkipIdle /\ DecIdle /\ LogIdle
    /\ pc = "file_loop" /\ snr_cb = "NULL"
    /\ gain = INT_MIN /\ dev_gains = <<>> /\ plan = <<>>
    /\ f_len \in 0..MaxFile
    /\ f_pos = 0 /\ f_eof = FALSE /\ f_cnt = 0 /\ f_blk = 0 /\ f_passed = 0

fileRest == <<gain, gainVars, snr_cb, inVars, dev_gains, hwVars, plan, histVars,
              skipVars, decVars, logVars>>

\* main.c:328  while (!feof(infp))
FileLoopTest ==
    /\ pc = "file_loop"
    /\ pc' = IF f_eof THEN "file_done" ELSE "file_read"
    /\ UNCHANGED <<fileVars, fileRest>>

\* main.c:332  fread of ReadItems items of 4 bytes: all of them when the file
\* still holds that many bytes, otherwise the complete items that are left,
\* the position at the end and the end-of-file indicator set
fread ==
    /\ pc = "file_read"
    /\ LET left == f_len - f_pos IN
       IF left >= 4 * ReadItems
       THEN /\ f_cnt' = ReadItems
            /\ f_pos' = f_pos + 4 * ReadItems
            /\ UNCHANGED f_eof
       ELSE /\ f_cnt' = left \div 4
            /\ f_pos' = f_len
            /\ f_eof' = TRUE
    /\ pc' = "file_test"
    /\ UNCHANGED <<f_len, f_blk, f_passed, fileRest>>

\* main.c:333-334  if (cnt > 0) input_cb(tmp, cnt * 4, &input)
FileTest ==
    /\ pc = "file_test"
    /\ IF PassBlock(f_cnt)
       THEN /\ pc' = "file_cb"
            /\ f_blk' = BlockBytes(f_cnt)
            /\ f_passed' = f_passed + BlockBytes(f_cnt)
       ELSE /\ pc' = "file_loop"
            /\ UNCHANGED <<f_blk, f_passed>>
    /\ UNCHANGED <<f_len, f_pos, f_eof, f_cnt, fileRest>>

\* input_cb returns to the loop
FileCbReturn ==
    /\ pc = "file_cb"
    /\ pc' = "file_loop"
    /\ UNCHANGED <<fileVars, fileRest>>

NextFile ==
    \/ FileLoopTest
    \/ fread
    \/ FileTest
    \/ FileCbReturn

SpecFile == InitFile /\ [][NextFile]_vars

----------------------------------------------------------------------------
\* The log lock (main.c:86-95, 184-189).  log.c is not in src/: a log call is
\* modelled as lock, write the head of the line, write its tail, unlock, the
\* lock function being called with the installed udata when one is installed
MaxLog == 4          \* log lines written in a run

logRest == <<coreVars, skipVars, decVars, fileVars>>

InitLog ==
    /\ InitCore /\ SkipIdle /\ DecIdle /\ FileIdle
    /\ pc = "log" /\ snr_cb = "NULL"
    /\ gain = INT_MIN /\ dev_gains = <<>> /\ plan = <<>>
    /\ log_fn = "NULL" /\ log_udata = "NULL" /\ log_mutex = "uninit"
    /\ tpc = [t \in Threads |-> IF t = "main" THEN "mutex_init" ELSE "unborn"]
    /\ log_sink = <<>> /\ n_acq = 0 /\ n_rel = 0

\* one step of main's installation sequence
MainStep(here, next) ==
    /\ pc = "log" /\ tpc["main"] = here
    /\ tpc' = [tpc EXCEPT !["main"] = next]

\* main.c:186
pthread_mutex_init ==
    /\ MainStep("mutex_init", "set_lock")
    /\ log_mutex' = "free"
    /\ UNCHANGED <<log_fn, log_udata, log_sink, n_acq, n_rel, logRest>>

\* main.c:187
log_set_lock ==
    /\ MainStep("set_lock", "set_udata")
    /\ log_fn' = "log_lock"
    /\ UNCHANGED <<log_udata, log_mutex, log_sink, n_acq, n_rel, logRest>>

\* main.c:188
log_set_udata ==
    /\ MainStep("set_udata", "idle")
    /\ log_udata' = "log_mutex"
    /\ UNCHANGED <<log_fn, log_mutex, log_sink, n_acq, n_rel, logRest>>

\* the device is opened and the driver starts its thread (main.c:346, 395)
StartDriver ==
    /\ pc = "log" /\ tpc["main"] = "idle" /\ tpc["driver"] = "unborn"
    /\ tpc' = [tpc EXCEPT !["driver"] = "idle"]
    /\ UNCHANGED <<log_fn, log_udata, log_mutex, log_sink, n_acq, n_rel, logRest>>

\* main.c:87-94  log_lock(udata, lock) called by thread t: pthread_mutex_lock
\* returns once the mutex is free and taken, pthread_mutex_unlock frees it
log_lock_nowait(t, lock) ==
    IF lock # 0
    THEN /\ log_mutex' = t
         /\ n_acq' = n_acq + 1 /\ UNCHANGED n_rel
    ELSE /\ log_mutex' = "free"
         /\ n_rel' = n_rel + 1 /\ UNCHANGED n_acq
log_lock(t, lock) ==
    IF lock # 0
    THEN /\ log_mutex = "free"
         /\ log_mutex' = t
         /\ n_acq' = n_acq + 1 /\ UNCHANGED n_rel
    ELSE /\ log_mutex' = "free"
         /\ n_rel' = n_rel + 1 /\ UNCHANGED n_acq

\* log.c lock() / unlock(): the installed function, if any, with the udata
LockCall(t, lock) ==
    IF log_fn = "log_lock" /\ log_udata = "log_mutex"
    THEN log_lock(t, lock)
    ELSE UNCHANGED <<log_mutex, n_acq, n_rel>>

\* log lines begun so far
LinesBegun == n_acq + Cardinality({u \in Threads : tpc[u] = "lock"})

\* thread t calls log_info / log_debug / log_fatal
LogBegin(t) ==
    /\ pc = "log" /\ tpc[t] = "idle"
    /\ LinesBegun < MaxLog
    /\ tpc' = [tpc EXCEPT ![t] = "lock"]
    /\ UNCHANGED <<log_fn, log_udata, log_mutex, log_sink, n_acq, n_rel, logRest>>

LogLock(t) ==
    /\ pc = "log" /\ tpc[t] = "lock"
    /\ LockCall(t, 1)
    /\ tpc' = [tpc EXCEPT ![t] = "head"]
    /\ UNCHANGED <<log_fn, log_udata, log_sink, logRest>>

LogHead(t) ==
    /\ pc = "log" /\ tpc[t] = "head"
    /\ log_sink' = Append(log_sink, [by |-> t, part |-> "head"])
    /\ tpc' = [tpc EXCEPT ![t] = "tail"]
    /\ UNCHANGED <<log_fn, log_udata, log_mutex, n_acq, n_rel, logRest>>

LogTail(t) ==
    /\ pc = "log" /\ tpc[t] = "tail"
    /\ log_sink' = Append(log_sink, [by |-> t, part |-> "tail"])
    /\ tpc' = [tpc EXCEPT ![t] = "unlock"]
    /\ UNCHANGED <<log_fn, log_udata, log_mutex, n_acq, n_rel, logRest>>

LogUnlock(t) ==
    /\ pc = "log" /\ tpc[t] = "unlock"
    /\ LockCall(t, 0)
    /\ tpc' = [tpc EXCEPT ![t] = "idle"]
    /\ UNCHANGED <<log_fn, log_udata, log_sink, logRest>>

NextLog ==
    \/ pthread_mutex_init
    \/ log_set_lock
    \/ log_set_udata
    \/ StartDriver
    \/ \E t \in Threads : LogBegin(t)
    \/ \E t \in Threads : LogLock(t)
    \/ \E t \in Threads : LogHead(t)
    \/ \E t \in Threads : LogTail(t)
    \/ \E t \in Threads : LogUnlock(t)

SpecLog == InitLog /\ [][NextLog]_vars

\* a running thread is scheduled: a thread inside log.c goes on
FairSpecLog == SpecLog /\ WF_vars(NextLog)

----------------------------------------------------------------------------
\* Properties

Last(seq) == seq[Len(seq)]

\* the callback is about to handle, or has just handled, a sample
InCallback == ipc = "snr" /\ snr_cb = "rtlsdr_snr_callback"
CallbackStep == InCallback /\ ipc' = "after_snr"

\* C1: while Searching, a sample either concludes the search with result 0,
\* exactly when the index is the last table entry or the metric is below
\* half the best metric as updated by this sample, or else advances the
\* index by exactly one with result 1.
C1_SampleOutcome ==
    [][ (CallbackStep /\ gain_count # 0) =>
          LET last  == gain_index = gain_count - 1
              below == ~cb_snr.nan /\ 2 * cb_snr.v < best_snr'.v
          IN  IF last \/ below
              THEN gain_count' = 0 /\ cb_result' = 0
              ELSE /\ gain_count' = gain_count
                   /\ gain_index' = gain_index + 1
                   /\ cb_result' = 1 ]_vars

\* a sample that stopped the search before the last entry, by the threshold
C1_Witness ==
    /\ ipc = "after_snr" /\ snr_cb = "rtlsdr_snr_callback"
    /\ visited # <<>> /\ gain_count = 0 /\ cb_result = 0 /\ ~late_cb
    /\ Last(visited).idx + 1 < Len(gain_list)

\* the metrics of the visited entries are numbers >= 0
NonNegative == \A k \in DOMAIN visited : ~visited[k].snr.nan /\ visited[k].snr.v >= 0

MaxMetric == CHOOSE m \in {visited[k].snr.v : k \in DOMAIN visited} :
                 \A k \in DOMAIN visited : visited[k].snr.v <= m

\* C2: for non-negative metrics, the index adopted at conclusion is the
\* highest visited index whose metric is the maximum over the visited ones.
C2_BestIsLastMax ==
    (gain_count = 0 /\ visited # <<>> /\ NonNegative) =>
        /\ \E k \in DOMAIN visited :
             visited[k].idx = gain_index /\ visited[k].snr.v = MaxMetric
        /\ \A k \in DOMAIN visited :
             visited[k].snr.v = MaxMetric => visited[k].idx <= gain_index

\* a concluded search where a later entry tied the earlier best and was adopted
C2_Witness ==
    /\ gain_count = 0 /\ Len(visited) >= 3 /\ NonNegative
    /\ \E j, k \in DOMAIN visited :
         /\ j < k /\ k < Len(visited)
         /\ visited[j].snr.v = MaxMetric /\ visited[k].snr.v = MaxMetric
         /\ gain_index = visited[k].idx

\* the trace of spec.md section 8, with the number of "continue" results
TraceOutcome(continues) ==
    /\ Len(visited) <= Len(TraceSnr)
    /\ \A k \in DOMAIN visited : visited[k] = [idx |-> k - 1, snr |-> TraceSnr[k]]
    /\ Len(visited) >= 3 => best_gain = 2 /\ best_snr = F(10)
    /\ Len(visited) = 4 => cb_result = 1 /\ gain_count # 0
    /\ Len(visited) = 5 =>
         /\ cb_result = 0 /\ gain_count = 0
         /\ gain_index = 2 /\ n_continue = continues

\* C3 as stated: ... and exactly 3 "continue" results precede the "stop".
C3_TraceAsStated == TraceOutcome(3)

\* C3 amended: metrics 5, 8, 10, 9, 4 make index 2 the best (metric 10), the
\* sample at index 3 continues, the sample at index 4 stops, the final index
\* is 2, and exactly 4 "continue" results precede the "stop".
C3_Trace == TraceOutcome(4)

C3_Witness == Len(visited) = 5 /\ plan = TraceSnr /\ pc = "read_async"

\* main has left the synchronous read loop of main.c:426-435
LoopExited == pc \in {"read_async", "close", "done", "exit_fatal"}

\* C4: with no explicit gain the search terminates: it handles at most as
\* many SNR samples as the table has entries, and the read loop exits.
C4_SearchTerminates ==
    /\ [](Len(visited) <= Len(dev_gains))
    /\ (pc = "gain_setup" /\ gain = INT_MIN) ~> LoopExited

\* C5: while Searching the index never decreases and moves by exactly one
\* per "continue"; no entry is measured twice; the index moves backwards
\* only in the step that concludes, to the best index.
C5_IndexMonotone ==
    [][ /\ (gain_count # 0 /\ gain_count' # 0) =>
              \/ gain_index' = gain_index /\ n_continue' = n_continue
              \/ gain_index' = gain_index + 1 /\ n_continue' = n_continue + 1
                   /\ cb_result' = 1
        /\ n_continue' # n_continue => gain_index' = gain_index + 1
        /\ gain_index' < gain_index =>
              gain_count # 0 /\ gain_count' = 0 /\ gain_index' = best_gain'
        /\ visited' # visited =>
              \A k \in DOMAIN visited : visited[k].idx < Last(visited').idx ]_vars

\* a search that concluded on an index below the one it stopped at
C5_Witness ==
    /\ gain_count = 0 /\ Len(visited) >= 2
    /\ gain_index < Last(visited).idx /\ n_continue = Len(visited) - 1

\* the search has run and is over
Concluded == gain_count = 0 /\ visited # <<>>

\* C6: Concluded is terminal, and a callback invocation after conclusion
\* returns 0 and changes neither the gain state nor the tuner.
C6_ConcludedTerminal ==
    [][ /\ (CallbackStep /\ gain_count = 0) =>
              /\ cb_result' = 0
              /\ UNCHANGED <<gain_index, gain_count, best_gain, best_snr, gain_list>>
              /\ UNCHANGED <<hw_ops, hw_gain>>
        /\ Concluded =>
              /\ gain_count' = 0 /\ visited' = visited
              /\ UNCHANGED <<gain_index, best_gain, best_snr, hw_ops, hw_gain>> ]_vars

C6_Witness == Concluded /\ late_cb /\ ipc = "after_snr" /\ cb_result = 0

\* C7: with an explicit gain the tuner is set to exactly that gain, no
\* callback is registered, the read loop runs no iteration and no other
\* gain is ever set.
C7_ExplicitGain ==
    gain # INT_MIN =>
        /\ snr_cb = "NULL" /\ gain_count = 0 /\ visited = <<>>
        /\ pc \notin {"read_sync", "input_cb"}
        /\ \A k \in DOMAIN hw_ops :
             /\ hw_ops[k] # OpRead
             /\ hw_ops[k].op = "set_tuner_gain" => k = 1 /\ hw_ops[k].arg = gain
        /\ hw_gain \in {<<>>, <<gain>>}
        /\ pc \in {"reset_buffer", "loop", "read_async", "close", "done"} =>
             hw_gain = <<gain>> /\ hw_ops[1] = OpSetGain(gain)

C7_Witness == gain # INT_MIN /\ pc = "read_async" /\ ipc = "accept" /\ hw_gain = <<gain>>

C9_ConfigErrorFatal ==
    hw_failed => pc \notin {"loop", "read_sync", "read_async", "close", "done"}

\* C10: the callback is invoked exactly when SNR_FFT_COUNT * 64 samples have
\* been accepted since the last invocation, however the samples are split
\* into blocks; a partial window is carried into the next block.
C10_OncePerSnrSample ==
    snr_cb # "NULL" =>
        /\ since_fire = snr_cnt * FFT_LEN + snr_fill \/ ipc \in {"snr", "after_snr"}
        /\ IF ipc \in {"snr", "after_snr"}
           THEN since_fire = SNR_FFT_COUNT * FFT_LEN
           ELSE since_fire < SNR_FFT_COUNT * FFT_LEN

\* an SNR sample completed in the middle of a block
C10_Witness ==
    /\ snr_cb = "any" /\ ipc = "snr" /\ blk > 0
    /\ since_fire = SNR_FFT_COUNT * FFT_LEN

\* C11: after input_set_skip(N), of the samples ingested since, in whatever
\* blocks, exactly the first N are discarded and all later ones forwarded.
C11_SkipExact ==
    pc = "ingest" =>
        /\ sk_disc + sk_fwd = sk_in
        /\ sk_in <= sk_armed => sk_disc = sk_in /\ sk_fwd = 0
        /\ sk_in >= sk_armed => sk_disc = sk_armed /\ sk_fwd = sk_in - sk_armed
        /\ skip = sk_armed - sk_disc

\* N+K samples ingested in blocks that do not end at the N-th sample
C11_Witness ==
    /\ pc = "ingest" /\ sk_armed = 2 /\ sk_in = sk_armed + MaxKeep
    /\ sk_disc = 2 /\ sk_fwd = MaxKeep /\ sk_zero = 1

\* C12 as stated: over init, setSkip and onSampleBlock the skip counter never
\* increases and reaches zero at most once.
C12_AsStated == [][skip' <= skip /\ sk_zero_all' <= 1]_vars

\* C12 amended: only setSkip raises the skip counter; onSampleBlock never
\* increases it and leaves it at zero once it is zero; after each setSkip
\* (or init) it reaches zero at most once.
C12_SkipMonotone ==
    [][ /\ skip' > skip => sk_armed' = skip' /\ sk_in' = 0
        /\ sk_in' > sk_in => skip' <= skip /\ (skip = 0 => skip' = 0)
        /\ sk_zero' <= 1 ]_vars

\* the counter was armed again after it had run out, and ran out again
C12_Witness == pc = "ingest" /\ sk_zero_all = 2 /\ sk_zero = 1 /\ skip = 0 /\ sk_fwd > 0

C14_FileBlocks ==
    /\ pc = "file_cb" =>
          /\ f_blk > 0 /\ f_blk % 4 = 0 /\ f_blk <= RADIO_BUFFER
          /\ f_blk = 4 * f_cnt
    /\ pc = "file_loop" => f_passed = 4 * (f_pos \div 4)
    /\ f_eof => pc # "file_read" /\ f_pos = f_len
    /\ pc = "file_done" => f_eof /\ f_passed = f_len - (f_len % 4)

\* the end of a file whose trailing short read held one complete unit and a
\* fractional remainder
C14_Witness ==
    /\ pc = "file_done" /\ f_len = 4 * ReadItems + 4 + 3
    /\ f_blk = 4 /\ f_passed = 4 * ReadItems + 4

\* C15: rtlsdr_read_async is entered only with the search over (gain_count
\* 0, and Concluded when a callback was registered); input_cb runs only
\* inside the synchronous loop or inside the asynchronous delivery, one block
\* at a time; while asynchronous streaming is active the SNR callback issues
\* no tuner call and changes no gain state.
C15_AsyncAfterConclusion ==
    /\ [](pc = "read_async" =>
            /\ gain_count = 0
            /\ snr_cb # "NULL" => Concluded)
    /\ [](ipc # "idle" => pc \in {"input_cb", "read_async"})
    /\ [][pc = "read_async" =>
            UNCHANGED <<hw_ops, hw_gain, gain_index, gain_count, best_gain>>]_vars

\* the callback has just been invoked from an asynchronous block
C15_Witness ==
    /\ pc = "read_async" /\ ipc = "after_snr" /\ snr_cb = "rtlsdr_snr_callback"
    /\ late_cb /\ Len(visited) >= 2

\* C16: once the search has concluded the tuner is set to gain_list[best
\* index], the last calls issued by the callback being that set_tuner_gain
\* and a reset_buffer, also when the search stopped behind the best index.
C16_BestGainApplied ==
    Concluded =>
        /\ gain_index = best_gain
        /\ LET n == Len(hw_ops)
               m == IF hw_ops[n] = OpRead THEN n - 1 ELSE n
           IN  /\ m >= 2
               /\ hw_ops[m] = OpReset
               /\ hw_ops[m - 1] = OpSetGain(GainAt(best_gain))
        /\ hw_gain = <<GainAt(best_gain)>>

C18_NoSearchWithoutGains ==
    (gain = INT_MIN /\ gain_count <= 0 /\ visited = <<>>) =>
        /\ snr_cb = "NULL"
        /\ pc \notin {"read_sync", "input_cb"}

\* thread t is inside the logging critical section
InLogSection(t) == tpc[t] \in {"head", "tail", "unlock"}

\* every line in the sink is whole: a head directly followed by its own tail
WholeLines ==
    \A k \in DOMAIN log_sink :
        IF k % 2 = 1
        THEN log_sink[k].part = "head"
        ELSE log_sink[k].part = "tail" /\ log_sink[k].by = log_sink[k - 1].by

\* C19: the lock function and its mutex are installed before the driver
\* thread exists; a thread is inside the logging critical section exactly
\* while it holds the mutex, so main and driver are never inside together and
\* no line is interleaved; acquires and releases match, and a held mutex is
\* released.
C19_LogMutex ==
    /\ [](tpc["driver"] # "unborn" =>
            log_fn = "log_lock" /\ log_udata = "log_mutex" /\ log_mutex # "uninit")
    /\ [](\A t \in Threads : InLogSection(t) <=> log_mutex = t)
    /\ [](~(InLogSection("main") /\ InLogSection("driver")))
    /\ [](WholeLines)
    /\ [](n_acq - n_rel = IF log_mutex \in Threads THEN 1 ELSE 0)
    /\ \A t \in Threads : (log_mutex = t) ~> (log_mutex = "free")

\* the driver writes a line while main waits for the lock, after a line of
\* main's
C19_Witness ==
    /\ pc = "log" /\ tpc["driver"] = "tail" /\ tpc["main"] = "lock"
    /\ log_mutex = "driver" /\ n_rel >= 1
    /\ log_sink[1].by = "main"

====
